---- MODULE Spec2Model ----
(***************************************************************************)
(* Model of the CONNECT handling of the goproxy HTTP proxy (https.go):     *)
(* ProxyHttpServer.handleHttps with its six actions, the byte relay        *)
(* (copyAndClose / copyOrWarn), httpError, the GetCertificate callback    *)
(* built by TLSConfigFromCA, and the parent-proxy dialer returned by       *)
(* NewConnectDialToProxyWithHandler.                                       *)
(*                                                                         *)
(* One CONNECT is followed from the creation of its ProxyCtx to the end of *)
(* every goroutine it starts.  Other CONNECTs and other MITM sessions of   *)
(* the same proxy run concurrently; the only state they share with this    *)
(* one in https.go is the session counter proxy.sess, so they appear as    *)
(* the action ConcurrentCtx.                                               *)
(*                                                                         *)
(* Spec follows the CONNECT alone, SessSpec adds the other sessions,       *)
(* FairSpec schedules the goroutines fairly, ConfigSpec lets the TLS       *)
(* configuration serve further handshakes, and DialSpec follows one call   *)
(* of the parent-proxy dialer.                                             *)
(*                                                                         *)
(* Strings that the code inspects character by character (hosts, server    *)
(* names) are sequences of one-character strings; byte strings that are    *)
(* only written are TLA+ strings.                                          *)
(***************************************************************************)
EXTENDS Integers, Sequences, FiniteSets, TLC

(* ------------------------------ bounds -------------------------------- *)

\* number of registered CONNECT handlers is 0..MaxHandlers
MaxHandlers == 2
\* ProxyCtx created by concurrent CONNECTs / sessions while this one runs
MaxOther == 1
\* bytes each peer of the byte relay sends before it stops sending
MaxBytes == 1
\* inner requests a client sends on one MITM tunnel
MaxReqs == 2
\* ClientHellos one TLS configuration's GetCertificate is invoked with
MaxHellos == 2

(* ----------------------------- constants ------------------------------ *)

ConnectAccept == 0
ConnectReject == 1
ConnectMitm == 2
ConnectHijack == 3
ConnectHTTPMitm == 4
ConnectProxyAuthHijack == 5

Actions ==
    {ConnectAccept, ConnectReject, ConnectMitm, ConnectHijack,
     ConnectHTTPMitm, ConnectProxyAuthHijack}

\* the 200 preface with the version of the other two prefaces
OkConnectResponse11 == "HTTP/1.1 200 OK\r\n\r\n"

\* the three literal prefaces written to the hijacked stream
OkConnectResponse == "HTTP/1.0 200 OK\r\n\r\n"

\* the 407 preface closed by an empty line, as the other two are
ProxyAuthResponseClosed == "HTTP/1.1 407 Proxy Authentication Required\r\n\r\n"

ProxyAuthResponse == "HTTP/1.1 407 Proxy Authentication Required\r\n"
BadGatewayResponse == "HTTP/1.1 502 Bad Gateway\r\n\r\n"

\* markers for bytes whose content the code does not look at
RelayByte == "<relayed byte>"
TLSRecords == "<TLS handshake records>"

(* ------------------------- hosts and ports ---------------------------- *)

Digit == {"0", "1", "2", "3", "4", "5", "6", "7", "8", "9"}

\* the index at which the regular expression :\d+$ matches s, as a set
\* (empty when it does not match)
PortMatch(s) ==
    {i \in 1..(Len(s) - 1) :
        /\ s[i] = ":"
        /\ \A j \in (i + 1)..Len(s) : s[j] \in Digit}

\* hasPort.MatchString(s)
HasPort(s) == PortMatch(s) # {}

\* hasPort.FindString(s): the matched text, "" when there is no match
FindPort(s) ==
    IF HasPort(s)
    THEN SubSeq(s, CHOOSE i \in PortMatch(s) : TRUE, Len(s))
    ELSE <<>>

stripPort(s) == SubSeq(s, 1, Len(s) - Len(FindPort(s)))

DefaultPort == <<":", "8", "0">>

\* AcceptAddr without lines 107-109: the host as it was decided
AcceptAddrAsIs(h) == h

\* lines 107-109: the address the Accept action dials
AcceptAddr(h) == IF ~HasPort(h) THEN h \o DefaultPort ELSE h

\* CONNECT targets: one with a port and one without
Hosts == {<<"a", ":", "4", "4", "3">>, <<"b">>}

\* SNI values of a ClientHello; <<>> is the empty server name
NoSNI == <<>>
ServerNames == {NoSNI, <<"s">>}

(* --------------------------- connect actions -------------------------- *)

\* a *ConnectAction; TLSConfig is "nil", "FromCA" (TLSConfigFromCA) or
\* "custom" (a user factory, which may fail).  Hijack is non-nil whenever
\* Action is ConnectHijack or ConnectProxyAuthHijack.
Todo(a, t) == [Action |-> a, TLSConfig |-> t]

OkConnect == Todo(ConnectAccept, "FromCA")

\* the nil *ConnectAction a handler returns to defer to the next handler
NilTodo == Todo(-1, "nil")

HandlerReturns ==
    {NilTodo} \cup {Todo(a, "FromCA") : a \in Actions}
              \cup {Todo(ConnectMitm, t) : t \in {"nil", "custom"}}

\* no handler has returned a non-nil action yet
NoDecision == [at |-> -1, todo |-> NilTodo, host |-> <<>>]

\* responses a handler may leave in ProxyCtx.Resp; NoResp is nil
NoResp == [status |-> "", body |-> ""]
Resp451 == [status |-> "451 Unavailable For Legal Reasons", body |-> "blocked"]

\* http.Response.Write: status line and headers, then the body
RespHead(r) == "HTTP/1.1 " \o r.status \o "\r\n\r\n"
RespParts(r) == <<RespHead(r), r.body>>

(* --------------------------- inner responses -------------------------- *)

HeaderKeys == {"Content-Length", "Transfer-Encoding", "Connection"}

\* a header that is not set
Absent == ""

Header(cl, te, conn) ==
    [k \in HeaderKeys |->
        CASE k = "Content-Length" -> cl
          [] k = "Transfer-Encoding" -> te
          [] k = "Connection" -> conn]

\* an *http.Response as the MITM loop uses it: StatusCode (as strconv.Itoa
\* prints it), Status as its words, Proto and Header
InnerResp(code, status, proto, h) ==
    [code |-> code, status |-> status, proto |-> proto, header |-> h]

NoInner == InnerResp("", <<>>, "", Header(Absent, Absent, Absent))

\* responses of the upstream transport and of the filters
InnerResps ==
    {InnerResp("200", <<"200", "OK">>, "HTTP/1.0", Header("5", Absent, "keep-alive")),
     InnerResp("404", <<"404", "Not", "Found">>, "HTTP/1.1", Header(Absent, "identity", Absent)),
     InnerResp("204", <<>>, "HTTP/2.0", Header("0", Absent, Absent))}

(* ------------------------------- state -------------------------------- *)

VARIABLES
    sess,        \* proxy.sess, the session counter
    issued,      \* Session of every ProxyCtx created so far, in creation order
    nHandlers,   \* len(proxy.httpsHandlers)
    hasStore,    \* proxyCtx.certStore != nil
    store,       \* the certificate store: the set of cached certificates
    pd,          \* the parent-proxy dialer and the call of it that is followed
    urlHost,     \* r.URL.Host of the CONNECT request
    pc,          \* position of the goroutine running handleHttps
    hi,          \* index i of the handler loop
    todo,        \* the selected *ConnectAction
    host,        \* the selected host
    calls,       \* the handler and host argument of every HandleHttpConnect call
    decided,     \* what the first handler with a non-nil action returned
    ctxResp,     \* proxyCtx.Resp
    client,      \* the hijacked client stream proxyResponseWriter
    target,      \* targetSiteCon, the connection to the origin
    dialed,      \* addresses passed to connectDial
    effects,     \* which actions' effects have happened for this CONNECT
    hijackSaw,   \* for each call of todo.Hijack, what the client stream held
    relay,       \* the byte relay's goroutines
    mh,          \* the plaintext MITM loop (ConnectHTTPMitm)
    mt,          \* the TLS MITM goroutine (ConnectMitm)
    serverName,  \* the variable serverName captured by GetCertificate
    certLog      \* one entry per GetCertificate invocation

proxyVars == <<sess, issued, nHandlers, hasStore, store, pd>>
chainVars == <<urlHost, hi, todo, host, calls, decided, ctxResp>>
connVars == <<client, target, dialed, effects, hijackSaw>>
loopVars == <<relay, mh, mt, serverName, certLog>>
vars == <<proxyVars, chainVars, connVars, loopVars, pc>>

(* --------------------------- byte streams ----------------------------- *)

\* a net.Conn as this code uses it: w is what has been written to it, shut
\* the halves shut down by CloseRead ("r") and CloseWrite ("w"), closed
\* whether Close was called, broken whether a write to it has failed (a
\* failed write to a connection fails for good)
\* nil says that there is no connection (a failed or not yet made dial)
NewConn == [w |-> <<>>, shut |-> {}, closed |-> FALSE, broken |-> FALSE, nil |-> FALSE]

\* targetSiteCon before connectDial has returned a connection
NoConn == [w |-> <<>>, shut |-> {}, closed |-> FALSE, broken |-> FALSE, nil |-> TRUE]

CanWrite(c) == ~c.closed /\ ~c.broken /\ "w" \notin c.shut

\* Write(data): ok says whether the write succeeds
Write(c, data, ok) ==
    IF ok THEN [c EXCEPT !.w = Append(@, data)] ELSE [c EXCEPT !.broken = TRUE]

Close(c) == [c EXCEPT !.closed = TRUE]
CloseWrite(c) == [c EXCEPT !.shut = @ \cup {"w"}]
CloseRead(c) == [c EXCEPT !.shut = @ \cup {"r"}]

\* httpError (lines 315-322): write the 502 preface, then close
httpError(c, ok) == Close(Write(c, BadGatewayResponse, ok))

(* --------------------------- session ids ------------------------------ *)

\* a load of the counter in place of the atomic add
LoadInt64(s) == s

\* atomic.AddInt64(&proxy.sess, 1): the new value of the counter
AddInt64(s) == s + 1

(* -------------------------- initial state ----------------------------- *)

Dirs == {"c2t", "t2c"}

NoRelay ==
    [mode |-> "none", cp |-> [d \in Dirs |-> "idle"], left |-> [d \in Dirs |-> 0],
     eof |-> [d \in Dirs |-> FALSE], wg |-> 0, waiter |-> "idle"]

\* the plaintext MITM loop: sent is how many requests the client sends on
\* the tunnel, taken how many of them have been read off the client socket,
\* req the request being handled, filtered the requests given to the
\* request filters
NoMh == [sent |-> 0, taken |-> 0, req |-> 0, filtered |-> <<>>]

\* the TLS MITM goroutine: cfg is the tls.Config it serves with, hs how
\* the handshake ended, sent how
\* many inner requests the client sends, read how many have been read, req
\* the request being handled, err the variable err of the loop body, resp
\* the response being written, from where it came from, out the parts of
\* the latest response written so far, outFor the request it answers,
\* filtered the requests given to the request filters
NoMt ==
    [pc |-> "idle", cfg |-> "none", sent |-> 0, read |-> 0, req |-> 0,
     err |-> FALSE, resp |-> NoInner, from |-> "none", out |-> <<>>,
     outFor |-> 0, filtered |-> <<>>, hs |-> "none"]

\* the parent-proxy dialer before NewConnectDialToProxyWithHandler is
\* called: scheme and host are those of the parent's URL, addr the address
\* the dialer is called with, c the socket to the parent, status the status
\* code of the parent's answer, body the length of its body, conn and err
\* what the call returns
NoDialer ==
    [pc |-> "none", scheme |-> "", host |-> <<>>, addr |-> <<>>, c |-> NoConn,
     status |-> 0, body |-> 0, conn |-> FALSE,
     err |-> [kind |-> "nil", body |-> 0]]

Init ==
    /\ sess = 0
    /\ issued = <<>>
    /\ nHandlers \in 0..MaxHandlers
    /\ hasStore = FALSE
    /\ store = {}
    /\ pd = NoDialer
    /\ urlHost \in Hosts
    /\ pc = "start"
    /\ hi = 0
    /\ todo = OkConnect
    /\ host = urlHost
    /\ calls = <<>>
    /\ decided = NoDecision
    /\ ctxResp = NoResp
    /\ client = NewConn
    /\ target = NoConn
    /\ dialed = <<>>
    /\ effects = {}
    /\ hijackSaw = <<>>
    /\ relay = NoRelay
    /\ mh = NoMh
    /\ mt = NoMt
    /\ serverName = <<>>
    /\ certLog = <<>>

(* ------------------- handleHttps: context and chain ------------------- *)

\* line 78: proxyCtx := &ProxyCtx{... Session: atomic.AddInt64(&proxy.sess, 1)}
\* line 92: todo, host := OkConnect, r.URL.Host (already so in Init)
NewProxyCtx ==
    /\ pc = "start"
    /\ sess' = AddInt64(sess)
    /\ issued' = Append(issued, [by |-> "connect", id |-> sess'])
    /\ pc' = "handlers"
    /\ UNCHANGED <<nHandlers, hasStore, store, pd, chainVars, connVars, loopVars>>

\* a ProxyCtx created by another CONNECT or by another MITM session of the
\* same proxy (the same lines 78 and 211, run by another goroutine)
ConcurrentCtx ==
    /\ Cardinality({i \in 1..Len(issued) : issued[i].by = "other"}) < MaxOther
    /\ sess' = AddInt64(sess)
    /\ issued' = Append(issued, [by |-> "other", id |-> sess'])
    /\ UNCHANGED <<nHandlers, hasStore, store, pd, chainVars, connVars, loopVars, pc>>

\* ChainStep without the break of line 100
ChainStepNoBreak(t, h, newtodo, newhost) ==
    IF newtodo # NilTodo
    THEN [todo |-> newtodo, host |-> newhost, brk |-> FALSE]
    ELSE [todo |-> t, host |-> h, brk |-> FALSE]

\* lines 94-101: what one handler's return does to todo and host, and
\* whether the loop stops
ChainStep(t, h, newtodo, newhost) ==
    IF newtodo # NilTodo
    THEN [todo |-> newtodo, host |-> newhost, brk |-> TRUE]
    ELSE [todo |-> t, host |-> h, brk |-> FALSE]

\* lines 93-101: one iteration of the handler loop; a handler that rejects
\* may also leave a response in proxyCtx.Resp
HandleHttpConnect ==
    /\ pc = "handlers"
    /\ hi < nHandlers
    /\ \E newtodo \in HandlerReturns, newhost \in Hosts, r \in {NoResp, Resp451} :
         /\ (r # NoResp => newtodo.Action = ConnectReject)
         /\ LET s == ChainStep(todo, host, newtodo, newhost) IN
              /\ calls' = Append(calls, [h |-> hi, host |-> host])
              /\ todo' = s.todo
              /\ host' = s.host
              /\ decided' = IF newtodo # NilTodo /\ decided = NoDecision
                            THEN [at |-> hi, todo |-> newtodo, host |-> newhost]
                            ELSE decided
              /\ ctxResp' = IF r # NoResp THEN r ELSE ctxResp
              /\ hi' = hi + 1
              /\ pc' = IF s.brk THEN "switch" ELSE "handlers"
    /\ UNCHANGED <<proxyVars, urlHost, connVars, loopVars>>

\* line 102: the loop ran out of handlers
NoHandlerDecides ==
    /\ pc = "handlers"
    /\ hi = nHandlers
    /\ pc' = "switch"
    /\ UNCHANGED <<proxyVars, chainVars, connVars, loopVars>>

(* ------------------ handleHttps: Reject, Hijack, 407 ------------------ *)

\* the first n of the parts written, the write failing iff n < Len(parts)
WriteParts(c, parts, n) ==
    [c EXCEPT !.w = @ \o SubSeq(parts, 1, n),
              !.broken = @ \/ n < Len(parts)]

\* RejectClient returning at the failed write, before the Close
RejectClientReturnsOnError(c, resp, n) ==
    IF resp # NoResp
    THEN IF n < Len(RespParts(resp))
         THEN WriteParts(c, RespParts(resp), n)
         ELSE Close(WriteParts(c, RespParts(resp), n))
    ELSE Close(c)

\* lines 306-311: the client stream after the Reject action, n being how
\* many parts of proxyCtx.Resp the failing or succeeding Write got out
RejectClient(c, resp, n) ==
    IF resp # NoResp THEN Close(WriteParts(c, RespParts(resp), n)) ELSE Close(c)

\* case ConnectReject (lines 305-311)
Reject ==
    /\ pc = "switch"
    /\ todo.Action = ConnectReject
    /\ \E n \in 0..2 :
         /\ (n > 0 => CanWrite(client))
         /\ (ctxResp = NoResp => n = 0)
         /\ client' = RejectClient(client, ctxResp, n)
    /\ effects' = effects \cup {"reject"}
    /\ pc' = "done"
    /\ UNCHANGED <<proxyVars, chainVars, target, dialed, hijackSaw, loopVars>>

\* todo.Hijack(r, proxyResponseWriter, proxyCtx): the callback is given the
\* client stream in the state it is in; what it does with it is its own
HijackCalled(saw, c) == Append(saw, c.w)

\* case ConnectHijack (lines 136-137)
Hijack ==
    /\ pc = "switch"
    /\ todo.Action = ConnectHijack
    /\ hijackSaw' = HijackCalled(hijackSaw, client)
    /\ effects' = effects \cup {"hijack"}
    /\ pc' = "done"
    /\ UNCHANGED <<proxyVars, chainVars, client, target, dialed, loopVars>>

\* line 302: the 407 preface
ProxyAuthWrite ==
    /\ pc = "switch"
    /\ todo.Action = ConnectProxyAuthHijack
    /\ \E ok \in BOOLEAN :
         /\ (ok => CanWrite(client))
         /\ client' = Write(client, ProxyAuthResponse, ok)
    /\ pc' = "auth.hijack"
    /\ UNCHANGED <<proxyVars, chainVars, target, dialed, effects, hijackSaw, loopVars>>

\* line 303
ProxyAuthHijack ==
    /\ pc = "auth.hijack"
    /\ hijackSaw' = HijackCalled(hijackSaw, client)
    /\ effects' = effects \cup {"hijack"}
    /\ pc' = "done"
    /\ UNCHANGED <<proxyVars, chainVars, client, target, dialed, loopVars>>

(* ------------------------ handleHttps: Accept ------------------------- *)

\* AcceptNext without the return of line 113
AcceptNextNoReturn(dialOk) == "accept.ok"

\* lines 111-115: where handleHttps goes after connectDial
AcceptNext(dialOk) == IF dialOk THEN "accept.ok" ELSE "done"

\* lines 106-114: normalise the port, dial; on failure httpError and return
AcceptDial ==
    /\ pc = "switch"
    /\ todo.Action = ConnectAccept
    /\ host' = AcceptAddr(host)
    /\ dialed' = Append(dialed, host')
    /\ \E dialOk \in BOOLEAN :
         IF dialOk
         THEN /\ target' = NewConn
              /\ client' = client
              /\ pc' = AcceptNext(dialOk)
         ELSE /\ \E ok \in BOOLEAN :
                   /\ (ok => CanWrite(client))
                   /\ client' = httpError(client, ok)
              /\ target' = target
              /\ pc' = AcceptNext(dialOk)
    /\ UNCHANGED <<proxyVars, urlHost, hi, todo, calls, decided, ctxResp,
                   effects, hijackSaw, loopVars>>

\* lines 118-134: which relay is started; half says whether both streams
\* are halfClosable
RelayMode(half) == IF half THEN "half" ELSE "fallback"

\* lines 115-134: the 200 preface, then the relay's goroutines; the peers
\* are chosen here: how many bytes each still sends and whether it then
\* signals EOF
AcceptRelay ==
    /\ pc = "accept.ok"
    /\ \E ok \in BOOLEAN :
         /\ (ok => CanWrite(client))
         /\ client' = Write(client, OkConnectResponse, ok)
    /\ \E half \in BOOLEAN, l \in [Dirs -> 0..MaxBytes], e \in [Dirs -> BOOLEAN] :
         relay' = [mode |-> RelayMode(half), cp |-> [d \in Dirs |-> "copy"],
                   left |-> l, eof |-> e,
                   wg |-> IF half THEN 0 ELSE 2,
                   waiter |-> IF half THEN "idle" ELSE "wait"]
    /\ effects' = effects \cup {"relay"}
    /\ pc' = "done"
    /\ UNCHANGED <<proxyVars, chainVars, target, dialed, hijackSaw,
                   mh, mt, serverName, certLog>>

(* --------------------------- the byte relay --------------------------- *)

\* io.Copy(dst, src), one Read of src that returns a byte, and its Write
CopyByte(d) ==
    /\ relay.cp[d] = "copy"
    /\ relay.left[d] > 0
    /\ \E ok \in BOOLEAN :
         /\ IF d = "c2t"
            THEN /\ (ok => CanWrite(target))
                 /\ target' = Write(target, RelayByte, ok)
                 /\ client' = client
            ELSE /\ (ok => CanWrite(client))
                 /\ client' = Write(client, RelayByte, ok)
                 /\ target' = target
         /\ relay' = IF ok
                     THEN [relay EXCEPT !.left[d] = @ - 1]
                     ELSE [relay EXCEPT !.cp[d] = "copied"]
    /\ UNCHANGED <<proxyVars, chainVars, dialed, effects, hijackSaw,
                   mh, mt, serverName, certLog, pc>>

\* io.Copy: Read of src returns io.EOF (the peer has sent everything and
\* closed its side) or fails (connection reset)
CopyEnd(d) ==
    /\ relay.cp[d] = "copy"
    /\ \E readErr \in BOOLEAN :
         /\ (~readErr => relay.left[d] = 0 /\ relay.eof[d])
         /\ relay' = [relay EXCEPT !.cp[d] = "copied"]
    /\ UNCHANGED <<proxyVars, chainVars, connVars, mh, mt, serverName, certLog, pc>>

\* copyAndClose after io.Copy, lines 336-337, on the destination
CopyAndCloseDst(c) == CloseWrite(c)

\* copyAndClose after io.Copy, lines 336-337, on the source
CopyAndCloseSrc(c) == CloseRead(c)

\* copyAndClose (lines 331-338) once io.Copy has returned
copyAndClose(d) ==
    /\ relay.mode = "half"
    /\ relay.cp[d] = "copied"
    /\ IF d = "c2t"
       THEN /\ target' = CopyAndCloseDst(target)
            /\ client' = CopyAndCloseSrc(client)
       ELSE /\ client' = CopyAndCloseDst(client)
            /\ target' = CopyAndCloseSrc(target)
    /\ relay' = [relay EXCEPT !.cp[d] = "done"]
    /\ UNCHANGED <<proxyVars, chainVars, dialed, effects, hijackSaw,
                   mh, mt, serverName, certLog, pc>>

\* copyOrWarn (lines 324-329) once io.Copy has returned: wg.Done()
copyOrWarn(d) ==
    /\ relay.mode = "fallback"
    /\ relay.cp[d] = "copied"
    /\ relay' = [relay EXCEPT !.cp[d] = "done", !.wg = @ - 1]
    /\ UNCHANGED <<proxyVars, chainVars, connVars, mh, mt, serverName, certLog, pc>>

\* lines 129-131: wg.Wait() returns, both streams are closed
WaitAndClose ==
    /\ relay.waiter = "wait"
    /\ relay.wg = 0
    /\ client' = Close(client)
    /\ target' = Close(target)
    /\ relay' = [relay EXCEPT !.waiter = "done"]
    /\ UNCHANGED <<proxyVars, chainVars, dialed, effects, hijackSaw,
                   mh, mt, serverName, certLog, pc>>

(* ---------------------- handleHttps: ConnectHTTPMitm ------------------ *)

RequestBytes == "<inner request>"

\* a response of the origin or of a request filter, as resp.Write puts it
RespOK == [status |-> "200 OK", body |-> "hello"]

\* line 140
HTTPMitmOk ==
    /\ pc = "switch"
    /\ todo.Action = ConnectHTTPMitm
    /\ \E ok \in BOOLEAN :
         /\ (ok => CanWrite(client))
         /\ client' = Write(client, OkConnectResponse, ok)
    /\ pc' = "hmitm.dial"
    /\ UNCHANGED <<proxyVars, chainVars, target, dialed, effects, hijackSaw, loopVars>>

\* lines 142-146: dial the host as it is; the client is chosen here: how
\* many requests it sends on the tunnel
HTTPMitmDial ==
    /\ pc = "hmitm.dial"
    /\ dialed' = Append(dialed, host)
    /\ \E dialOk \in BOOLEAN :
         IF dialOk
         THEN /\ target' = NewConn
              /\ \E n \in 0..MaxReqs : mh' = [mh EXCEPT !.sent = n]
              /\ effects' = effects \cup {"mitmhttp"}
              /\ pc' = "hmitm.read"
         ELSE /\ UNCHANGED <<target, mh, effects>>
              /\ pc' = "done"
    /\ UNCHANGED <<proxyVars, chainVars, client, hijackSaw, relay, mt,
                   serverName, certLog>>

\* lines 148-156: a new bufio.Reader on the client stream, and
\* http.ReadRequest on it.  The reader's first Read takes what the client
\* has sent so far, j requests; ReadRequest returns the first of them.
HTTPMitmReadRequest ==
    /\ pc = "hmitm.read"
    /\ \/ \E j \in 1..(mh.sent - mh.taken) :
            /\ mh' = [mh EXCEPT !.req = mh.taken + 1, !.taken = @ + j]
            /\ pc' = "hmitm.filter"
       \/ \E readErr \in BOOLEAN :
            /\ (~readErr => mh.taken = mh.sent)
            /\ mh' = mh
            /\ pc' = "done"
    /\ UNCHANGED <<proxyVars, chainVars, connVars, relay, mt, serverName, certLog>>

\* lines 157-169: the request filters, then the round trip on the origin
\* connection unless a filter answered
HTTPMitmRoundTrip ==
    /\ pc = "hmitm.filter"
    /\ mh' = [mh EXCEPT !.filtered = Append(@, mh.req)]
    /\ \E out \in {"filter", "ok", "writeErr", "readErr"} :
         /\ target' = IF out = "filter" THEN target
                      ELSE Write(target, RequestBytes, out # "writeErr")
         /\ IF out \in {"writeErr", "readErr"}
            THEN /\ \E ok \in BOOLEAN :
                      /\ (ok => CanWrite(client))
                      /\ client' = httpError(client, ok)
                 /\ pc' = "done"
            ELSE /\ client' = client
                 /\ pc' = "hmitm.write"
    /\ UNCHANGED <<proxyVars, chainVars, dialed, effects, hijackSaw, relay, mt,
                   serverName, certLog>>

\* lines 170-174: the response filters, then resp.Write to the client; n is
\* how many parts of the response get out
HTTPMitmWrite ==
    /\ pc = "hmitm.write"
    /\ \E n \in 0..2 :
         /\ (n > 0 => CanWrite(client))
         /\ IF n = 2
            THEN /\ client' = WriteParts(client, RespParts(RespOK), n)
                 /\ pc' = "hmitm.read"
            ELSE /\ client' = httpError(WriteParts(client, RespParts(RespOK), n), FALSE)
                 /\ pc' = "done"
    /\ UNCHANGED <<proxyVars, chainVars, target, dialed, effects, hijackSaw,
                   loopVars>>

(* ----------------- TLSConfigFromCA and GetCertificate ----------------- *)

\* line 446: serverName as the factory initialises it for the CONNECT host
ConfigServerName(h) == stripPort(h)

\* HelloServerName without lines 450-452: the name of the CONNECT host
HelloServerNameOfHost(sni, sn) == sn

\* lines 450-452: the server name the callback signs for
HelloServerName(sni, sn) == IF sni # NoSNI THEN sni ELSE sn

\* line 457: the name list genCert passes to signHost
GenCertNames(sn) == <<sn>>

\* signHost(ca, names): a leaf certificate whose SAN list is names, or an
\* error
signHost(names, signOk) == [ok |-> signOk, names |-> IF signOk THEN names ELSE <<>>]

\* CertStore.Fetch(key, gen): the cached certificate for key if there is
\* one, else gen's certificate, which is cached unless gen failed
Cached(st, key) == {c \in st : c.key = key}

Fetch(st, key, gen) ==
    IF Cached(st, key) # {}
    THEN [cert |-> (CHOOSE c \in Cached(st, key) : TRUE).cert, st |-> st]
    ELSE [cert |-> gen,
          st |-> IF gen.ok THEN st \cup {[key |-> key, cert |-> gen]} ELSE st]

\* certificates an earlier session of the proxy may have left in the store
EarlierStores == {{}, {[key |-> <<"s">>, cert |-> signHost(<<<<"s">>>>, TRUE)]}}

(* ------------------------ handleHttps: ConnectMitm -------------------- *)

\* line 178
MitmOk ==
    /\ pc = "switch"
    /\ todo.Action = ConnectMitm
    /\ \E ok \in BOOLEAN :
         /\ (ok => CanWrite(client))
         /\ client' = Write(client, OkConnectResponse, ok)
    /\ pc' = "mitm.config"
    /\ UNCHANGED <<proxyVars, chainVars, target, dialed, effects, hijackSaw, loopVars>>

\* lines 184-193: the TLS configuration, then the goroutine is started and
\* handleHttps returns.  proxyCtx.certStore (copied from proxy.CertStore at
\* line 78) is read by GetCertificate only; it and what the store holds are
\* drawn here, where the context is handed to the factory.
MitmTLSConfig ==
    /\ pc = "mitm.config"
    /\ \/ /\ todo.TLSConfig = "nil"
          /\ mt' = [mt EXCEPT !.pc = "handshake", !.cfg = "default"]
          /\ UNCHANGED <<client, serverName, hasStore, store>>
       \/ /\ todo.TLSConfig = "FromCA"
          /\ serverName' = ConfigServerName(host)
          /\ hasStore' \in BOOLEAN
          /\ store' \in (IF hasStore' THEN EarlierStores ELSE {{}})
          /\ mt' = [mt EXCEPT !.pc = "handshake", !.cfg = "FromCA"]
          /\ client' = client
       \/ /\ todo.TLSConfig = "custom"
          /\ \E cfgOk \in BOOLEAN :
               IF cfgOk
               THEN /\ mt' = [mt EXCEPT !.pc = "handshake", !.cfg = "custom"]
                    /\ client' = client
               ELSE /\ \E ok \in BOOLEAN :
                         /\ (ok => CanWrite(client))
                         /\ client' = httpError(client, ok)
                    /\ mt' = mt
          /\ UNCHANGED <<serverName, hasStore, store>>
    /\ pc' = "done"
    /\ UNCHANGED <<sess, issued, nHandlers, pd, chainVars, target, dialed, effects,
                   hijackSaw, relay, mh, certLog>>

\* lines 448-465: one invocation of the callback with a ClientHello whose
\* server name is sni: it assigns the captured variable serverName, signs
\* and, when there is a store, fetches; cert is what it returns
Callback(sni, signOk) ==
    LET name == HelloServerName(sni, serverName)
        gen == signHost(GenCertNames(name), signOk)
        got == IF hasStore THEN Fetch(store, name, gen)
               ELSE [cert |-> gen, st |-> store]
    IN  /\ serverName' = name
        /\ store' = got.st
        /\ certLog' = Append(certLog,
                         [sni |-> sni, key |-> name, cert |-> got.cert,
                          fetched |-> hasStore])

\* the certificate the latest invocation returned
LastCert(log) == log[Len(log)].cert

\* lines 448-465: the GetCertificate callback, invoked by the handshake
\* with the ClientHello's server name
GetCertificate ==
    /\ mt.pc = "handshake"
    /\ mt.cfg = "FromCA"
    /\ \E sni \in ServerNames, signOk \in BOOLEAN : Callback(sni, signOk)
    /\ mt' = IF LastCert(certLog').ok
             THEN [mt EXCEPT !.pc = "handshake.cert"]
             ELSE [mt EXCEPT !.pc = "done", !.hs = "failed"]
    /\ UNCHANGED <<sess, issued, nHandlers, hasStore, pd, chainVars, connVars, relay,
                   mh, pc>>

\* the callback of the same configuration invoked for a further
\* ClientHello: GetCertificate is a field of the *tls.Config the factory
\* returns, and crypto/tls calls it for every handshake served with that
\* configuration
GetCertificateAgain ==
    /\ mt.cfg = "FromCA"
    /\ certLog # <<>>
    /\ Len(certLog) < MaxHellos
    /\ \E sni \in ServerNames, signOk \in BOOLEAN : Callback(sni, signOk)
    /\ UNCHANGED <<sess, issued, nHandlers, hasStore, pd, chainVars, connVars, relay,
                   mh, mt, pc>>

\* lines 197-201: rawClientTls.Handshake() returns.  It succeeds only with
\* a certificate (when the configuration asks GetCertificate for one) and a
\* client stream that takes the server's records; on failure the goroutine
\* logs and returns.  The client is chosen here: how many requests it sends.
Handshake ==
    /\ mt.pc \in {"handshake", "handshake.cert"}
    /\ \E hsOk \in BOOLEAN :
         IF hsOk
         THEN /\ (mt.cfg = "FromCA" => mt.pc = "handshake.cert")
              /\ CanWrite(client)
              /\ client' = Write(client, TLSRecords, TRUE)
              /\ \E n \in 0..MaxReqs :
                   mt' = [mt EXCEPT !.pc = "loop", !.sent = n, !.hs = "ok"]
              /\ effects' = effects \cup {"mitmtls"}
         ELSE /\ mt' = [mt EXCEPT !.pc = "done", !.hs = "failed"]
              /\ UNCHANGED <<client, effects>>
    /\ UNCHANGED <<proxyVars, chainVars, target, dialed, hijackSaw, relay, mh,
                   serverName, certLog, pc>>

(* ------------------------- the TLS MITM loop -------------------------- *)

\* line 202: defer rawClientTls.Close(), which closes the client stream
DeferredClose(c) == Close(c)

\* lines 205 and 298: isEof(clientTlsReader) is true, the loop ends
TLSLoopExit ==
    /\ mt.pc = "loop"
    /\ mt.read = mt.sent
    /\ client' = DeferredClose(client)
    /\ mt' = [mt EXCEPT !.pc = "done"]
    /\ UNCHANGED <<proxyVars, chainVars, target, dialed, effects, hijackSaw,
                   relay, mh, serverName, certLog, pc>>

\* lines 206-226: http.ReadRequest on the one reader of the session.  A
\* request is read (and its URL made absolute, url.Parse leaving err), or
\* ReadRequest fails: with io.EOF after the child context is created, with
\* any other error before.
TLSReadRequest ==
    /\ mt.pc = "loop"
    /\ \/ /\ mt.read < mt.sent
          /\ sess' = AddInt64(sess)
          /\ issued' = Append(issued, [by |-> "inner", id |-> sess'])
          /\ \E urlErr \in BOOLEAN :
               mt' = [mt EXCEPT !.pc = "filter", !.read = @ + 1, !.req = mt.read + 1,
                                !.err = urlErr]
          /\ client' = client
       \/ /\ sess' = AddInt64(sess)
          /\ issued' = Append(issued, [by |-> "inner", id |-> sess'])
          /\ mt' = [mt EXCEPT !.pc = "done"]
          /\ client' = DeferredClose(client)
       \/ /\ UNCHANGED <<sess, issued>>
          /\ mt' = [mt EXCEPT !.pc = "done"]
          /\ client' = DeferredClose(client)
    /\ UNCHANGED <<nHandlers, hasStore, store, pd, chainVars, target, dialed, effects,
                   hijackSaw, relay, mh, serverName, certLog, pc>>

\* lines 229-252: the request filters; unless one of them answered, the
\* WebSocket hand-over, the check of err, and the round trip; then the
\* response filters, which may return any response
TLSRoundTrip ==
    /\ mt.pc = "filter"
    /\ \E out \in {"filter", "websocket", "illegalURL", "upstream", "roundTripErr"} :
         /\ (out = "illegalURL" => mt.err)
         /\ (out \in {"upstream", "roundTripErr"} => ~mt.err)
         /\ IF out \in {"filter", "upstream"}
            THEN /\ \E r \in InnerResps :
                      mt' = [mt EXCEPT !.pc = "w.status", !.resp = r, !.from = out,
                                       !.filtered = Append(@, mt.req)]
                 /\ client' = client
            ELSE /\ mt' = [mt EXCEPT !.pc = "done", !.filtered = Append(@, mt.req)]
                 /\ client' = DeferredClose(client)
    /\ UNCHANGED <<proxyVars, chainVars, target, dialed, effects, hijackSaw,
                   relay, mh, serverName, certLog, pc>>

\* strings.TrimPrefix(resp.Status, strconv.Itoa(resp.StatusCode) + " ")
TrimPrefix(status, code) ==
    IF status # <<>> /\ Head(status) = code THEN Tail(status) ELSE status

\* lines 258-262: the status line, as its words
StatusLine(r) == <<"HTTP/1.1", r.code>> \o TrimPrefix(r.status, r.code)

\* ResponseHeader without the Del of line 268
ResponseHeaderKeepsLength(h) ==
    [h EXCEPT !["Transfer-Encoding"] = "chunked",
              !["Connection"] = "close"]

\* lines 268-271: Del("Content-Length"), Set("Transfer-Encoding",
\* "chunked"), Set("Connection", "close")
ResponseHeader(h) ==
    [h EXCEPT !["Content-Length"] = Absent,
              !["Transfer-Encoding"] = "chunked",
              !["Connection"] = "close"]

\* the value of e, the error of hij.Hijack() (lines 85-88), as "e != nil":
\* handleHttps has panicked unless it is nil
eNotNil == FALSE

\* lines 281 and 285: the condition tested after io.Copy and after
\* chunked.Close(), err being the error just assigned
CopyFailed(err) == eNotNil

\* lines 262, 272, 276, 289: the condition tested after the other writes
WriteFailed(err) == err

\* where the goroutine goes after a step of the response writer: on when
\* the step's test passes, else out of the closure and, err being set
\* (line 294), out of the loop
AfterWrite(failed, on) == IF failed THEN "done" ELSE on

\* one write of the response writer to rawClientTls: part is what is
\* written, ok whether the write succeeds, failed the test applied to its
\* error, on the next step
TLSWrite(part, ok, failed, on) ==
    /\ (ok => CanWrite(client))
    /\ LET c == IF ok THEN client ELSE [client EXCEPT !.broken = TRUE]
           to == AfterWrite(failed, on)
       IN  /\ client' = IF to = "done" THEN DeferredClose(c) ELSE c
           /\ mt' = [mt EXCEPT !.pc = to, !.err = ~ok,
                               !.out = IF ok THEN Append(@, part) ELSE @]

\* line 262
TLSWriteStatus ==
    /\ mt.pc = "w.status"
    /\ \E ok \in BOOLEAN :
         /\ (ok => CanWrite(client))
         /\ LET c == IF ok THEN client ELSE [client EXCEPT !.broken = TRUE]
                to == AfterWrite(WriteFailed(~ok), "w.header")
            IN  /\ client' = IF to = "done" THEN DeferredClose(c) ELSE c
                /\ mt' = [mt EXCEPT !.pc = to, !.err = ~ok, !.outFor = mt.req,
                                    !.out = IF ok
                                            THEN <<[k |-> "status", line |-> StatusLine(mt.resp)]>>
                                            ELSE <<>>]
    /\ UNCHANGED <<proxyVars, chainVars, target, dialed, effects, hijackSaw,
                   relay, mh, serverName, certLog, pc>>

\* lines 268-275
TLSWriteHeader ==
    /\ mt.pc = "w.header"
    /\ \E ok \in BOOLEAN :
         TLSWrite([k |-> "header", h |-> ResponseHeader(mt.resp.header)], ok,
                  WriteFailed(~ok), "w.crlf")
    /\ UNCHANGED <<proxyVars, chainVars, target, dialed, effects, hijackSaw,
                   relay, mh, serverName, certLog, pc>>

\* lines 276-279
TLSWriteHeaderEnd ==
    /\ mt.pc = "w.crlf"
    /\ \E ok \in BOOLEAN :
         TLSWrite([k |-> "crlf"], ok, WriteFailed(~ok), "w.body")
    /\ UNCHANGED <<proxyVars, chainVars, target, dialed, effects, hijackSaw,
                   relay, mh, serverName, certLog, pc>>

\* lines 280-284: io.Copy(chunked, resp.Body).  The copy is complete, or it
\* stops at an error of the body (readErr: what was read is written) or of
\* the client stream
TLSCopyBody ==
    /\ mt.pc = "w.body"
    /\ \E out \in {"full", "readErr", "writeErr"} :
         /\ (out # "writeErr" => CanWrite(client))
         /\ LET c == IF out # "writeErr" THEN client ELSE [client EXCEPT !.broken = TRUE]
                to == AfterWrite(CopyFailed(out # "full"), "w.last")
            IN  /\ client' = IF to = "done" THEN DeferredClose(c) ELSE c
                /\ mt' = [mt EXCEPT !.pc = to, !.err = (out # "full"),
                                    !.out = IF out # "writeErr"
                                            THEN Append(@, [k |-> "body", full |-> out = "full"])
                                            ELSE @]
    /\ UNCHANGED <<proxyVars, chainVars, target, dialed, effects, hijackSaw,
                   relay, mh, serverName, certLog, pc>>

\* lines 285-288: chunked.Close() writes the last chunk
TLSCloseChunked ==
    /\ mt.pc = "w.last"
    /\ \E ok \in BOOLEAN :
         TLSWrite([k |-> "last-chunk"], ok, CopyFailed(~ok), "w.end")
    /\ UNCHANGED <<proxyVars, chainVars, target, dialed, effects, hijackSaw,
                   relay, mh, serverName, certLog, pc>>

\* lines 289-296: the trailing CRLF; then the closure returns and the loop
\* goes on unless err is set
TLSWriteEnd ==
    /\ mt.pc = "w.end"
    /\ \E ok \in BOOLEAN :
         TLSWrite([k |-> "crlf"], ok, WriteFailed(~ok), "loop")
    /\ UNCHANGED <<proxyVars, chainVars, target, dialed, effects, hijackSaw,
                   relay, mh, serverName, certLog, pc>>

(* ----------------- NewConnectDialToProxyWithHandler ------------------- *)

\* everything handleHttps and its goroutines work on
httpsVars == <<sess, issued, nHandlers, hasStore, store, chainVars, connVars, loopVars, pc>>

\* schemes and hosts of the parent proxy's URL
Schemes == {"", "http", "https", "wss", "socks5"}
ParentHosts == {<<"p">>, <<"p", ":", "9">>}

TLSPort == <<":", "4", "4", "3">>

\* u.Scheme == "" || u.Scheme == "http" (line 360)
PlainScheme(sch) == sch \in {"", "http"}

\* u.Scheme == "https" || u.Scheme == "wss" (line 400)
TLSScheme(sch) == sch \in {"https", "wss"}

\* lines 361-363 and 401-403: u.Host with the scheme's port when it has none
ParentAddr(sch, h) ==
    IF ~HasPort(h) THEN h \o (IF PlainScheme(sch) THEN DefaultPort ELSE TLSPort) ELSE h

\* lines 365-370 and 410-415: the CONNECT request for addr
ConnectReq(addr) == [Method |-> "CONNECT", Opaque |-> addr, Host |-> addr]

\* addresses handleHttps calls connectDial with
DialAddrs == Hosts \cup {AcceptAddr(h) : h \in Hosts}

\* status codes of the parent's answer, and lengths of its body
ParentStatus == {200, 403, 407}
BodyLens == {0, 4, 501}

\* an error value: its kind and, for a refusal, how many bytes of the
\* parent's body its message carries
DialError(kind, n) == [kind |-> kind, body |-> n]
NoError == DialError("nil", 0)

\* lines 390 and 431: how much of the refusal body is read
RefusalBody(sch, n) == IF TLSScheme(sch) /\ n > 500 THEN 500 ELSE n

\* what a call of the dialer returns
Return(d, conn, err) == [d EXCEPT !.pc = "returned", !.conn = conn, !.err = err]

\* lines 355-363, 400-403, 441: the dialer for the parent's URL, nil when
\* the scheme is none of the four
NewConnectDialToProxyWithHandler ==
    /\ pd.pc = "none"
    /\ \E sch \in Schemes, h \in ParentHosts :
         pd' = IF PlainScheme(sch) \/ TLSScheme(sch)
               THEN [pd EXCEPT !.pc = "dialer", !.scheme = sch, !.host = ParentAddr(sch, h)]
               ELSE [pd EXCEPT !.pc = "nil", !.scheme = sch, !.host = h]
    /\ UNCHANGED httpsVars

\* lines 374-377 and 405-409: the dialer is called with addr and dials the
\* parent
DialParent ==
    /\ pd.pc = "dialer"
    /\ \E addr \in DialAddrs, dialOk \in BOOLEAN :
         pd' = IF dialOk
               THEN [pd EXCEPT !.pc = "write", !.addr = addr, !.c = NewConn]
               ELSE Return([pd EXCEPT !.addr = addr], FALSE, DialError("dial", 0))
    /\ UNCHANGED httpsVars

\* lines 378 and 419: connectReq.Write(c), its error is not looked at
WriteConnectReq ==
    /\ pd.pc = "write"
    /\ \E ok \in BOOLEAN :
         pd' = [pd EXCEPT !.pc = "read", !.c = Write(@, ConnectReq(pd.addr), ok)]
    /\ UNCHANGED httpsVars

\* lines 382-389, 397 and 423-430, 438: http.ReadResponse; on an error the
\* socket is closed, on status 200 the socket is returned.  The parent
\* answers only a request that reached it.
ReadResponse ==
    /\ pd.pc = "read"
    /\ \/ pd' = Return([pd EXCEPT !.c = Close(@)], FALSE, DialError("read", 0))
       \/ /\ ~pd.c.broken
          /\ \E st \in ParentStatus, n \in BodyLens :
               /\ (st = 200 => n = 0)
               /\ pd' = IF st # 200
                        THEN [pd EXCEPT !.pc = "refused", !.status = st, !.body = n]
                        ELSE Return([pd EXCEPT !.status = st], TRUE, NoError)
    /\ UNCHANGED httpsVars

\* lines 390-395 and 431-436: ioutil.ReadAll of the refusal body, then
\* c.Close() and the error that carries the body
ReadRefusal ==
    /\ pd.pc = "refused"
    /\ \E readOk \in BOOLEAN :
         pd' = IF readOk
               THEN Return([pd EXCEPT !.c = Close(@)], FALSE,
                           DialError("proxy refused connection", RefusalBody(pd.scheme, pd.body)))
               ELSE Return(pd, FALSE, DialError("readall", 0))
    /\ UNCHANGED httpsVars

(* -------------------------- the specification ------------------------- *)

Relay ==
    \/ \E d \in Dirs : CopyByte(d)
    \/ \E d \in Dirs : CopyEnd(d)
    \/ \E d \in Dirs : copyAndClose(d)
    \/ \E d \in Dirs : copyOrWarn(d)
    \/ WaitAndClose

HTTPMitm ==
    \/ HTTPMitmOk
    \/ HTTPMitmDial
    \/ HTTPMitmReadRequest
    \/ HTTPMitmRoundTrip
    \/ HTTPMitmWrite

Mitm ==
    \/ MitmOk
    \/ MitmTLSConfig
    \/ GetCertificate
    \/ Handshake
    \/ TLSLoopExit
    \/ TLSReadRequest
    \/ TLSRoundTrip
    \/ TLSWriteStatus
    \/ TLSWriteHeader
    \/ TLSWriteHeaderEnd
    \/ TLSCopyBody
    \/ TLSCloseChunked
    \/ TLSWriteEnd

\* one CONNECT, from handleHttps to the end of its goroutines
Next ==
    \/ NewProxyCtx
    \/ HandleHttpConnect
    \/ NoHandlerDecides
    \/ Reject
    \/ Hijack
    \/ ProxyAuthWrite
    \/ ProxyAuthHijack
    \/ AcceptDial
    \/ AcceptRelay
    \/ Relay
    \/ HTTPMitm
    \/ Mitm

Spec == Init /\ [][Next]_vars

\* the same CONNECT while other CONNECTs and sessions of the proxy create
\* their contexts
SessNext ==
    \/ Next
    \/ ConcurrentCtx

SessSpec == Init /\ [][SessNext]_vars

\* the same CONNECT, its TLS configuration serving further handshakes
ConfigNext ==
    \/ Next
    \/ GetCertificateAgain

ConfigSpec == Init /\ [][ConfigNext]_vars

\* one call of the parent-proxy dialer
DialNext ==
    \/ NewConnectDialToProxyWithHandler
    \/ DialParent
    \/ WriteConnectReq
    \/ ReadResponse
    \/ ReadRefusal

DialSpec == Init /\ [][DialNext]_vars

(* ------------------------------- claims ------------------------------- *)

\* the dial of the origin was made and returned an error
DialFailed == dialed # <<>> /\ target.nil

\* C1 as stated: for a CONNECT whose action is Accept, MitmHTTP or MitmTLS,
\* on every path, dial and TLS configuration failures included, the first
\* bytes on the client stream are "HTTP/1.0 200 OK\r\n\r\n".
C1_FirstBytesAlways200 ==
    (todo.Action \in {ConnectAccept, ConnectHTTPMitm, ConnectMitm} /\ client.w # <<>>)
        => client.w[1] = "HTTP/1.0 200 OK\r\n\r\n"

\* C1 amended: the first bytes on the client stream are the 200 preface for
\* MitmHTTP and MitmTLS on every path and for Accept when the dial
\* succeeded; when the Accept dial failed the stream holds the 502 preface
\* and nothing else.
C1_FirstBytes ==
    (todo.Action \in {ConnectAccept, ConnectHTTPMitm, ConnectMitm} /\ client.w # <<>>)
        => IF todo.Action = ConnectAccept /\ DialFailed
           THEN client.w = <<"HTTP/1.1 502 Bad Gateway\r\n\r\n">>
           ELSE client.w[1] = "HTTP/1.0 200 OK\r\n\r\n"

\* the TLS configuration factory failed after the 200 preface was written
C1_Witness ==
    /\ todo.Action = ConnectMitm
    /\ mt.cfg = "none"
    /\ pc = "done"
    /\ client.w = <<"HTTP/1.0 200 OK\r\n\r\n", "HTTP/1.1 502 Bad Gateway\r\n\r\n">>

\* C2: under ProxyAuthHijack the first bytes on the client stream are the
\* 407 status line with a single CRLF, the Hijack callback is called once
\* handleHttps is done and never twice, and when it is called the stream it
\* is given holds exactly that line (or nothing, the write having failed).
C2_ProxyAuth ==
    todo.Action = ConnectProxyAuthHijack =>
        /\ client.w # <<>> => client.w[1] = "HTTP/1.1 407 Proxy Authentication Required\r\n"
        /\ Len(hijackSaw) <= 1
        /\ pc = "done" => Len(hijackSaw) = 1
        /\ \A i \in 1..Len(hijackSaw) :
             \/ hijackSaw[i] = <<"HTTP/1.1 407 Proxy Authentication Required\r\n">>
             \/ hijackSaw[i] = <<>> /\ client.broken

C2_Witness ==
    /\ todo.Action = ConnectProxyAuthHijack
    /\ pc = "done"
    /\ hijackSaw = <<<<"HTTP/1.1 407 Proxy Authentication Required\r\n">>>>

\* the effect by which each action shows
EffectOf(a) ==
    CASE a = ConnectAccept -> "relay"
      [] a = ConnectReject -> "reject"
      [] a = ConnectMitm -> "mitmtls"
      [] a = ConnectHijack -> "hijack"
      [] a = ConnectHTTPMitm -> "mitmhttp"
      [] a = ConnectProxyAuthHijack -> "hijack"

\* handleHttps has returned and the handshake of its goroutine, if any, is
\* over: whatever effect the CONNECT has, has happened
Settled == pc = "done" /\ mt.pc \notin {"handshake", "handshake.cert"}

\* C3 as stated: never two actions' effects for one CONNECT, and at least
\* one once the CONNECT is settled.
C3_ExactlyOneEffect ==
    /\ Cardinality(effects) <= 1
    /\ Settled => Cardinality(effects) = 1

\* the failures after which the selected action starts nothing
StartFailed ==
    \/ todo.Action \in {ConnectAccept, ConnectHTTPMitm} /\ DialFailed
    \/ todo.Action = ConnectMitm /\ (mt.cfg = "none" \/ mt.hs = "failed")

\* C3 amended: the only effect that ever happens is that of the selected
\* action, and once the CONNECT is settled it has happened, unless the
\* origin dial (Accept, MitmHTTP), the TLS configuration factory or the
\* client handshake (MitmTLS) failed, in which case no effect happens.
C3_OneEffect ==
    /\ effects \subseteq {EffectOf(todo.Action)}
    /\ Settled => effects = IF StartFailed THEN {} ELSE {EffectOf(todo.Action)}

\* a CONNECT settled with no effect: the Accept dial failed
C3_Witness ==
    /\ Settled
    /\ todo.Action = ConnectAccept
    /\ DialFailed
    /\ effects = {}

\* C4: the handlers are called in registration order, each with r.URL.Host;
\* none is called after the first that returns a non-nil action; what the
\* switch then sees is that handler's action and host, or OkConnect and
\* r.URL.Host when every handler returned nil.
C4_FirstMatch ==
    /\ \A i \in 1..Len(calls) : calls[i] = [h |-> i - 1, host |-> urlHost]
    /\ decided # NoDecision => Len(calls) = decided.at + 1
    /\ pc \notin {"start", "handlers"} =>
         IF decided = NoDecision
         THEN Len(calls) = nHandlers /\ todo = OkConnect
         ELSE todo = decided.todo
    /\ pc = "switch" =>
         host = IF decided = NoDecision THEN urlHost ELSE decided.host

\* the second handler decides, with a rewritten host, the first having
\* returned nil
C4_Witness ==
    /\ pc = "switch"
    /\ decided.at = 1
    /\ decided.host # urlHost
    /\ Len(calls) = 2

\* s is a prefix of t
IsPrefix(s, t) == Len(s) <= Len(t) /\ s = SubSeq(t, 1, Len(s))

\* C5: under Reject no origin connection is dialed, and when handleHttps is
\* done the client stream is closed and holds nothing but the serialization
\* of proxyCtx.Resp: all of it when the write succeeded, a prefix of it when
\* the write failed, nothing when Resp is nil.
C5_Reject ==
    todo.Action = ConnectReject =>
        /\ dialed = <<>>
        /\ target.nil
        /\ pc = "done" =>
             /\ client.closed
             /\ IF ctxResp = NoResp
                THEN client.w = <<>>
                ELSE /\ IsPrefix(client.w, RespParts(ctxResp))
                     /\ ~client.broken => client.w = RespParts(ctxResp)

\* the write of the response failed half way, and the stream was closed
C5_Witness ==
    /\ todo.Action = ConnectReject
    /\ pc = "done"
    /\ ctxResp = Resp451
    /\ client.broken
    /\ Len(client.w) = 1
    /\ client.closed

\* both copies of the relay have returned and, in the fallback relay, the
\* goroutine waiting for them has closed the streams
RelayFinished ==
    /\ relay.mode # "none"
    /\ \A d \in Dirs : relay.cp[d] = "done"
    /\ relay.mode = "fallback" => relay.waiter = "done"

\* C6: when both peers of the relay send finitely many bytes and then EOF,
\* the relay, once both directions have ended, has closed the client socket
\* and the origin socket, whichever of the two relays was started.
C6_RelayClosesBoth ==
    (RelayFinished /\ \A d \in Dirs : relay.eof[d])
        => client.closed /\ target.closed

\* C7: every part of an inner response written to the client in the TLS
\* MITM loop has a status line that starts with HTTP/1.1 and a header with
\* Transfer-Encoding: chunked, Connection: close and no Content-Length.
C7_InnerResponse ==
    \A i \in 1..Len(mt.out) :
        /\ mt.out[i].k = "status" => mt.out[i].line[1] = "HTTP/1.1"
        /\ mt.out[i].k = "header" =>
             /\ mt.out[i].h["Transfer-Encoding"] = "chunked"
             /\ mt.out[i].h["Connection"] = "close"
             /\ mt.out[i].h["Content-Length"] = ""

\* a request filter answered with an HTTP/1.0 response that carries a
\* Content-Length and Connection: keep-alive, and its header was written
C7_Witness ==
    /\ mt.from = "filter"
    /\ mt.resp.proto = "HTTP/1.0"
    /\ mt.resp.header["Content-Length"] = "5"
    /\ mt.resp.header["Connection"] = "keep-alive"
    /\ Len(mt.out) >= 2
    /\ mt.out[2].k = "header"

\* C8: every GetCertificate invocation whose ClientHello carries a
\* non-empty server name S and that yields a certificate yields one signed
\* for the name list <<S>>, fetched under the key S when there is a store,
\* whatever the CONNECT host is.
C8_SNICertificate ==
    \A i \in 1..Len(certLog) :
        (certLog[i].sni # <<>> /\ certLog[i].cert.ok) =>
            /\ certLog[i].cert.names = <<certLog[i].sni>>
            /\ certLog[i].key = certLog[i].sni

\* a ClientHello with the server name "s" on a CONNECT to another host, the
\* certificate being signed on the spot by the store's Fetch
C8_Witness ==
    /\ Len(certLog) = 1
    /\ certLog[1].sni = <<"s">>
    /\ certLog[1].fetched
    /\ certLog[1].cert.ok
    /\ stripPort(host) # <<"s">>
    /\ store = {[key |-> <<"s">>, cert |-> [ok |-> TRUE, names |-> <<<<"s">>>>]]}
    /\ mt.hs = "ok"

\* C9: no two contexts of the proxy, whether of a CONNECT or of an inner
\* request, of this CONNECT or of another, have the same session id.
C9_SessionsUnique ==
    \A i, j \in 1..Len(issued) : i # j => issued[i].id # issued[j].id

\* a context of another session is created between the CONNECT's context
\* and the context of its first inner request
C9_Witness ==
    /\ Len(issued) >= 3
    /\ issued[1].by = "connect"
    /\ issued[2].by = "other"
    /\ issued[3].by = "inner"

\* the parts of a fully written inner response
ResponseComplete(out) ==
    /\ Len(out) = 6
    /\ [i \in 1..6 |-> out[i].k] = <<"status", "header", "crlf", "body", "last-chunk", "crlf">>
    /\ out[4].full

\* C10: in a TLS MITM session the requests are given to the filters in the
\* order of their arrival, and when request k+1 has been read the response
\* to request k is on the client stream in full: status line, header,
\* chunked body and terminator.
C10_ResponseBeforeNextRequest ==
    /\ \A i \in 1..Len(mt.filtered) : mt.filtered[i] = i
    /\ (mt.pc = "filter" /\ mt.req > 1) =>
         /\ mt.outFor = mt.req - 1
         /\ ResponseComplete(mt.out)

\* C11: when the dial of the origin fails, under Accept the client stream
\* holds the 502 preface (nothing, its write having failed) and is closed,
\* under MitmHTTP the client stream is closed, and in both cases neither a
\* relay nor a request loop is started.
C11_DialFailureClosesClient ==
    (pc = "done" /\ DialFailed) =>
        /\ todo.Action = ConnectAccept =>
             /\ client.closed
             /\ \/ client.w = <<"HTTP/1.1 502 Bad Gateway\r\n\r\n">>
                \/ client.w = <<>> /\ client.broken
             /\ relay = NoRelay
        /\ todo.Action = ConnectHTTPMitm =>
             /\ client.closed
             /\ mh = NoMh

\* C12: a call of the parent-proxy dialer, plain or TLS, returns the socket
\* to the parent, open and with no error, exactly when the parent answered
\* with status 200; in every other case it returns an error and no
\* connection, and the socket it opened, if any, is closed.
C12_DialerReturn ==
    pd.pc = "returned" =>
        IF pd.status = 200
        THEN pd.conn /\ pd.err.kind = "nil" /\ ~pd.c.nil /\ ~pd.c.closed
        ELSE ~pd.conn /\ pd.err.kind # "nil" /\ (pd.c.nil \/ pd.c.closed)

\* the host the switch works with: the host the deciding handler returned,
\* r.URL.Host when no handler decided
DecidedHost == IF decided = NoDecision THEN urlHost ELSE decided.host

\* s ends in a colon followed by one or more digits
EndsInPort(s) ==
    \E i \in 1..(Len(s) - 1) :
        /\ s[i] = ":"
        /\ \A j \in (i + 1)..Len(s) :
             s[j] \in {"0", "1", "2", "3", "4", "5", "6", "7", "8", "9"}

\* C13: a CONNECT routed through Accept dials once, the decided host as it
\* is when it ends in ":<digits>" and with ":80" appended when it does not,
\* the decided host being the host a handler rewrote it to, if one did.
C13_AcceptDialAddr ==
    (todo.Action = ConnectAccept /\ pc \notin {"start", "handlers", "switch"}) =>
        dialed = <<IF EndsInPort(DecidedHost)
                   THEN DecidedHost
                   ELSE DecidedHost \o <<":", "8", "0">>>>

\* a handler rewrote a:443 to b and chose Accept: b:80 is dialed
C13_Witness ==
    /\ todo.Action = ConnectAccept
    /\ urlHost = <<"a", ":", "4", "4", "3">>
    /\ decided.host = <<"b">>
    /\ dialed = <<<<"b", ":", "8", "0">>>>
    /\ ~target.nil

\* a step of the writing of an inner response has returned an error: a write
\* to the client stream failed, or the copy of the body stopped short
ResponseWriteFailed ==
    /\ mt.hs = "ok"
    /\ \/ client.broken
       \/ \E i \in 1..Len(mt.out) : mt.out[i].k = "body" /\ ~mt.out[i].full

\* C14: in the TLS MITM loop, once a step of the writing of an inner
\* response (status line, header, header end, chunked body copy, last
\* chunk, trailing CRLF) has returned an error, no further inner request is
\* read from the client.
C14_WriteErrorEndsLoop ==
    [][ResponseWriteFailed => mt'.read = mt.read]_vars

\* C15: under MitmTLS, when the client-side handshake has failed, because no
\* certificate could be generated or for any other reason, the client
\* stream is closed.
C15_HandshakeFailureClosesClient ==
    (todo.Action = ConnectMitm /\ mt.hs = "failed") => client.closed

\* the steps of the byte relay that the program itself takes: a byte that
\* has arrived is copied, an EOF the peer has sent is reported, a copy that
\* has ended returns, the waiting goroutine wakes up.  That a peer that has
\* not sent EOF ever ends its stream, or that a read fails, is up to the
\* peers and the network.
RelayFairness ==
    /\ \A d \in Dirs : WF_vars(CopyByte(d))
    /\ \A d \in Dirs : WF_vars(relay.eof[d] /\ CopyEnd(d))
    /\ \A d \in Dirs : WF_vars(copyAndClose(d))
    /\ \A d \in Dirs : WF_vars(copyOrWarn(d))
    /\ WF_vars(WaitAndClose)

\* one CONNECT whose goroutines are scheduled fairly
FairSpec == Spec /\ RelayFairness

\* C16: in the fallback relay, once either direction of the copy has ended,
\* the client stream and the origin stream are eventually both closed, also
\* when the peer of the other direction never sends EOF.
C16_FallbackReleasesBoth ==
    (relay.mode = "fallback" /\ \E d \in Dirs : relay.cp[d] # "copy")
        ~> (client.closed /\ target.closed)

\* C17: every invocation of the GetCertificate callback of a configuration
\* built by TLSConfigFromCA for the CONNECT host signs for, and fetches
\* under, the server name of its own ClientHello when that is not empty and
\* stripPort of the CONNECT host otherwise, whatever earlier invocations on
\* the same configuration were given.
C17_ServerNamePerInvocation ==
    \A i \in 1..Len(certLog) :
        LET name == IF certLog[i].sni # <<>> THEN certLog[i].sni ELSE stripPort(host) IN
        /\ certLog[i].key = name
        /\ (certLog[i].cert.ok /\ ~certLog[i].fetched) => certLog[i].cert.names = <<name>>

\* data is among what was written to stream c
Wrote(c, data) == \E i \in 1..Len(c.w) : c.w[i] = data

\* C18: under MitmTLS the client stream never holds both plaintext status
\* prefaces, the 200 of the CONNECT response and the 502 of the error
\* response.
C18_NoBadGatewayAfterOk ==
    todo.Action = ConnectMitm =>
        ~(/\ Wrote(client, "HTTP/1.0 200 OK\r\n\r\n")
          /\ Wrote(client, "HTTP/1.1 502 Bad Gateway\r\n\r\n"))

\* the plaintext MITM loop was started and has returned
HTTPMitmLoopEnded ==
    /\ todo.Action = ConnectHTTPMitm
    /\ "mitmhttp" \in effects
    /\ pc = "done"

\* C19: under MitmHTTP, when the request loop has ended, whether on the
\* client's EOF, on a read error, on an error of the origin or on a failed
\* write to the client, the client stream and the origin connection are
\* both closed.
C19_HTTPMitmExitClosesBoth ==
    HTTPMitmLoopEnded => (client.closed /\ target.closed)

\* C20: under MitmHTTP the requests the client sends are given to the
\* request filters once each and in the order of their arrival, none being
\* skipped or lost: whenever the loop is about to read, every request that
\* has been taken off the client stream has been given to the filters.
C20_EveryRequestFiltered ==
    /\ \A i \in 1..Len(mh.filtered) : mh.filtered[i] = i
    /\ pc = "hmitm.read" => Len(mh.filtered) = mh.taken

====
